---- MODULE Spec2Model ----
(***************************************************************************)
(* Model of the Logogear portal generation scripts:                        *)
(*   backend/scripts/generate_bluedart.py  (courier manifest pipeline)     *)
(*   backend/scripts/generate_dc.py        (delivery challan pipeline)     *)
(*                                                                         *)
(* Text is modelled as a sequence of one-character strings, so that        *)
(* str.strip, str.replace, str.split/join, slicing, int() and the format   *)
(* specification :03d are computed the way Python computes them.           *)
(***************************************************************************)
EXTENDS Integers, Sequences, FiniteSets, TLC

\* ------------------------------------------------------------------ bounds
MaxRows == 2        \* longest input batch
MaxRuns == 2        \* invocations of a pipeline in one behaviour
MaxRep == 14        \* repetitions of a seed when building long names
MaxStart == 1       \* largest small counter value found in the state file at start

\* ------------------------------------------------------------ text helpers
Whitespace == {" ", "\t", "\n", "\r"}

Digit == <<"0", "1", "2", "3", "4", "5", "6", "7", "8", "9">>

RECURSIVE LStrip(_)
LStrip(s) ==
    IF s # <<>> /\ Head(s) \in Whitespace THEN LStrip(Tail(s)) ELSE s

RECURSIVE RStrip(_)
RStrip(s) ==
    IF s # <<>> /\ s[Len(s)] \in Whitespace
    THEN RStrip(SubSeq(s, 1, Len(s) - 1)) ELSE s

\* str.strip()
Strip(s) == RStrip(LStrip(s))

\* str.replace(old, new) for one-character old and new
Replace(s, old, new) == [i \in 1..Len(s) |-> IF s[i] = old THEN new ELSE s[i]]

\* str.lower() on the letters the inputs use
LowerChar(c) ==
    CASE c = "N" -> "n"
      [] c = "A" -> "a"
      [] c = "B" -> "b"
      [] c = "L" -> "l"
      [] c = "M" -> "m"
      [] c = "P" -> "p"
      [] OTHER -> c

Lower(s) == [i \in 1..Len(s) |-> LowerChar(s[i])]

\* ' '.join(s.split()): leading and trailing whitespace dropped, every inner
\* run of whitespace replaced by one space
RECURSIVE JoinSplit(_)
JoinSplit(s) ==
    LET t == LStrip(s) IN
    IF t = <<>> THEN <<>>
    ELSE IF Tail(t) # <<>> /\ Head(Tail(t)) \in Whitespace
         THEN IF LStrip(Tail(t)) = <<>> THEN <<Head(t)>>
              ELSE <<Head(t), " ">> \o JoinSplit(Tail(t))
         ELSE <<Head(t)>> \o JoinSplit(Tail(t))

\* s[:n]
Prefix(s, n) == SubSeq(s, 1, IF Len(s) < n THEN Len(s) ELSE n)

\* str(n) for n >= 0
RECURSIVE Decimal(_)
Decimal(n) ==
    IF n < 10 THEN <<Digit[n + 1]>> ELSE Decimal(n \div 10) \o <<Digit[(n % 10) + 1]>>

\* str(n) for an int
StrInt(n) == IF n < 0 THEN <<"-">> \o Decimal(0 - n) ELSE Decimal(n)

RECURSIVE ZeroPad(_, _)
ZeroPad(s, width) == IF Len(s) >= width THEN s ELSE ZeroPad(<<"0">> \o s, width)

\* format(n, "03d"): the sign counts towards the width
Format03d(n) ==
    IF n < 0 THEN <<"-">> \o ZeroPad(Decimal(0 - n), 2) ELSE ZeroPad(Decimal(n), 3)

DigitValue(c) == CHOOSE d \in 0..9 : Digit[d + 1] = c

IsDigits(s) == s # <<>> /\ \A i \in 1..Len(s) : \E d \in 1..10 : Digit[d] = s[i]

RECURSIVE DigitsValue(_)
DigitsValue(s) ==
    IF s = <<>> THEN 0
    ELSE 10 * DigitsValue(SubSeq(s, 1, Len(s) - 1)) + DigitValue(s[Len(s)])

\* Whether int(s) returns a value (otherwise it raises ValueError)
IsIntText(s) ==
    LET t == Strip(s) IN
    \/ IsDigits(t)
    \/ t # <<>> /\ Head(t) \in {"-", "+"} /\ IsDigits(Tail(t))

\* int(s) where it returns a value
IntOf(s) ==
    LET t == Strip(s) IN
    IF IsDigits(t) THEN DigitsValue(t)
    ELSE IF Head(t) = "-" THEN 0 - DigitsValue(Tail(t))
    ELSE DigitsValue(Tail(t))

\* --------------------------------------------------------- pandas.read_csv
\* A missing value as read_csv returns it (float nan); no text equals it
NaN == <<"NaN">>

\* A file that does not exist; no text equals it
NoFile == <<"NoFile">>

\* Cell texts read_csv turns into NaN with its default na_values
NAValues ==
    { <<>>,
      <<"N", "/", "A">>, <<"n", "/", "a">>, <<"N", "A">>,
      <<"n", "a", "n">>, <<"N", "a", "N">> }

ReadCell(raw) == IF raw \in NAValues THEN NaN ELSE raw

\* str(value) of a cell
Str(cell) == IF cell = NaN THEN <<"n", "a", "n">> ELSE cell

AllColumns ==
    {"Full Name", "Email", "Street Address", "Landmark", "Mobile Number",
     "Postal Code", "City"}

\* Field of the model's row that holds a column's text; the columns whose
\* text no modelled step inspects carry a fixed text
RawCell(r, col) ==
    CASE col = "Full Name" -> r.name
      [] col = "Street Address" -> r.street
      [] col = "Landmark" -> r.landmark
      [] col = "City" -> r.city
      [] OTHER -> <<"x">>

KeyError == <<"KeyError">>

\* row[col]: the cell, or KeyError when the table has no such column
Item(df, i, col) ==
    IF col \in df.cols THEN ReadCell(RawCell(df.rows[i], col)) ELSE KeyError

\* row.get(col, default)
Get(df, i, col, default) ==
    IF col \in df.cols THEN ReadCell(RawCell(df.rows[i], col)) ELSE default

\* ------------------------------------------------------------------ inputs
\* Rows of the manifest runs: a named customer, and one whose name cell is empty
BluedartRows ==
    { [name |-> <<"A", " ", "B">>, street |-> <<"s">>, landmark |-> <<>>,
       city |-> <<"P">>],
      [name |-> <<>>, street |-> <<"s">>, landmark |-> <<>>, city |-> <<"P">>] }

\* Rows of the document runs: complete, name cell empty, city cell empty,
\* name with reserved characters
DcRows ==
    { [name |-> <<"A", " ", "B">>, street |-> <<"s">>, landmark |-> <<>>,
       city |-> <<"P">>],
      [name |-> <<>>, street |-> <<"s">>, landmark |-> <<>>, city |-> <<"P">>],
      [name |-> <<"A", "/", "B">>, street |-> <<"s">>, landmark |-> <<"L">>,
       city |-> <<>>] }

Batches(samples) == UNION {[1..n -> samples] : n \in 0..MaxRows}

ColumnSets ==
    { AllColumns, AllColumns \ {"Full Name"}, AllColumns \ {"City", "Landmark"} }

MissingFile == [kind |-> "missing", cols |-> {}, rows |-> <<>>]
Malformed == [kind |-> "malformed", cols |-> {}, rows |-> <<>>]

\* What pd.read_csv(csv_file_path) returns when it returns: a table
Tables(samples) == [kind : {"table"}, cols : ColumnSets, rows : Batches(samples)]

\* Contents the state file may hold when the first run starts: written by an
\* earlier run (decimal text), padded by hand, or not a number at all
StartCounterTexts ==
    { StrInt(n) : n \in 0..MaxStart }
    \cup { <<"9", "9", "8">>, <<" ", "0", "7", "\n">>, <<>>, <<"1", "2", "a">> }

\* Date of the run as strftime("%d%m%Y") gives it
today_folder == <<"0", "3", "1", "1", "2", "0", "2", "6">>

\* ------------------------------------------------------------------- state
VARIABLES
    counter_dir,      \* whether the counter directory exists
    counter_file,     \* text of ref_counter.txt, or NoFile
    manifest_file,    \* Bluedart_AWB_<date>.csv in the output directory
    prog,             \* the pipeline invoked last: "none", "bluedart", "dc"
    pc,               \* position in the running pipeline, "idle" between runs
    df,               \* the table read from the input file
    idx,              \* 1-based position of the row loop
    last_ref_no,      \* counter value loaded at the start of the run
    current_ref_no,   \* counter value in memory
    rows_out,         \* manifest rows built so far
    full_name,        \* generate_dc_files' local full_name, or Unbound
    generated_files,  \* document paths appended so far
    saved,            \* document paths written to the output directory
    saved_rows,       \* history: positions of the rows a document was saved for
    result,           \* the dict the pipeline returned
    runs,             \* invocations so far
    issued,           \* history: per manifest written, the reference texts in it
    skipped,          \* history: numbers allocated to skipped rows of this run
    burned,           \* history: numbers allocated to skipped rows of
                      \* earlier successful runs
    counter_writes,   \* history: writes of the counter file in this run
    file_before,      \* history: counter_file when this run started
    arg,              \* input of a text function applied on its own
    out               \* its output

vars ==
    << counter_dir, counter_file, manifest_file, prog, pc, df, idx, last_ref_no,
       current_ref_no, rows_out, full_name, generated_files, saved, saved_rows,
       result, runs,
       issued, skipped, burned, counter_writes, file_before, arg, out >>

Unbound == <<"Unbound">>

NoTable == [kind |-> "none", cols |-> {}, rows |-> <<>>]

Pending == [success |-> FALSE, count |-> 0, cause |-> "pending"]

Failure(cause) == [success |-> FALSE, count |-> 0, cause |-> cause]

Success(n) == [success |-> TRUE, count |-> n, cause |-> "none"]

NoManifest == [exists |-> FALSE, rows |-> <<>>]

\* ------------------------------------------- generate_bluedart_file helpers
\* The load without the read: every run starts from 0
LoadCounterIgnoresFile(file) == 0

\* last_ref_no as loaded from the state file
LoadCounter(file) ==
    IF file = NoFile THEN 0
    ELSE IF IsIntText(file) THEN IntOf(file)
    ELSE 0

\* current_ref_no += 1
NextRef(n) == n + 1

LGS_INV == <<"L", "G", "S", "-", "I", "N", "V", "-">>

\* The reference without the zero padding
RefTextUnpadded(n) == LGS_INV \o StrInt(n)

\* f"LGS-INV-{current_ref_no:03d}"
RefText(n) == LGS_INV \o Format03d(n)

\* Columns the record builder reads with row[...]
RequiredColumns ==
    {"Full Name", "Email", "Street Address", "Mobile Number", "Postal Code"}

\* Whether building the record of a row raises (KeyError)
RowRaises(d) == ~(RequiredColumns \subseteq d.cols)

\* The clean-up without the test for 'nan'
CleanLandmarkEmptyOnly(landmark) == landmark

\* landmark after "remove 'nan' values"
CleanLandmark(landmark) ==
    IF Lower(landmark) = <<"n", "a", "n">> \/ landmark = <<>> THEN <<>> ELSE landmark

NoBreaks(s) == Replace(Replace(Replace(s, "\n", " "), "\r", " "), "\t", " ")

\* delivery_address from the stripped str() of the two cells
DeliveryAddress(street0, landmark0) ==
    LET street == NoBreaks(street0)
        landmark == NoBreaks(CleanLandmark(landmark0))
    IN  JoinSplit(IF landmark # <<>> THEN street \o <<",", " ">> \o landmark
                  ELSE street)

\* out_row of row i with reference number n (the columns that vary)
OutRow(d, i, n) ==
    [ reference_no |-> RefText(n),
      invoice_no |-> RefText(n),
      company_name |-> Strip(Str(Item(d, i, "Full Name"))),
      delivery_address |->
          DeliveryAddress(Strip(Str(Item(d, i, "Street Address"))),
                          Strip(Str(Get(d, i, "Landmark", <<>>)))) ]

Refs(rows) == {rows[i].reference_no : i \in 1..Len(rows)}

\* ------------------------------------------------------------------- Init
InitRun ==
    /\ prog = "none"
    /\ pc = "idle"
    /\ df = NoTable
    /\ idx = 1
    /\ last_ref_no = 0
    /\ current_ref_no = 0
    /\ rows_out = <<>>
    /\ full_name = Unbound
    /\ generated_files = <<>>
    /\ saved = {}
    /\ saved_rows = {}
    /\ result = Pending
    /\ runs = 0
    /\ issued = <<>>
    /\ skipped = {}
    /\ burned = {}
    /\ counter_writes = 0

\* The counter directory may not exist; then it holds no state file
Init ==
    /\ counter_dir \in BOOLEAN
    /\ counter_file \in (IF counter_dir THEN StartCounterTexts \cup {NoFile} ELSE {NoFile})
    /\ file_before = counter_file
    /\ manifest_file = NoManifest
    /\ InitRun
    /\ arg = <<>>
    /\ out = <<>>

Disk == << counter_dir, counter_file, manifest_file >>
BluedartLocals == << last_ref_no, current_ref_no, rows_out >>
DcLocals == << full_name, generated_files, saved, saved_rows >>
History == << issued, skipped, burned, counter_writes, file_before >>
TextVars == << arg, out >>

\* ------------------------------------------------- generate_bluedart_file
\* Entry of a run: the locals of the previous run are gone
BD_Enter(d) ==
    /\ pc = "idle"
    /\ runs < MaxRuns
    /\ runs' = runs + 1
    /\ prog' = "bluedart"
    /\ df' = d
    /\ idx' = 1
    /\ rows_out' = <<>>
    /\ skipped' = {}
    /\ counter_writes' = 0
    /\ file_before' = counter_file
    /\ UNCHANGED << Disk, DcLocals, issued, burned, TextVars >>

\* os.makedirs or pd.read_csv raises: the outer handler returns the failure
BD_SetupFails ==
    \E cause \in {"output_dir", "input_not_found", "malformed_input"} :
        /\ BD_Enter(IF cause = "input_not_found" THEN MissingFile
                    ELSE IF cause = "malformed_input" THEN Malformed
                    ELSE NoTable)
        /\ result' = Failure(cause)
        /\ pc' = "idle"
        /\ UNCHANGED << last_ref_no, current_ref_no >>

\* df_src.shape[0] == 0: ValueError("CSV has no data rows.")
BD_EmptyInput ==
    \E d \in Tables(BluedartRows) :
        /\ Len(d.rows) = 0
        /\ BD_Enter(d)
        /\ result' = Failure("empty_input")
        /\ pc' = "idle"
        /\ UNCHANGED << last_ref_no, current_ref_no >>

\* The table has rows: load the last used reference number
BD_Load ==
    \E d \in Tables(BluedartRows) :
        /\ Len(d.rows) > 0
        /\ BD_Enter(d)
        /\ last_ref_no' = LoadCounter(counter_file)
        /\ current_ref_no' = LoadCounter(counter_file)
        /\ result' = Pending
        /\ pc' = "bd_rows"

\* One pass of the row loop in which the record is built and appended
BD_RowOk ==
    /\ pc = "bd_rows" /\ idx <= Len(df.rows)
    /\ ~RowRaises(df)
    /\ current_ref_no' = NextRef(current_ref_no)
    /\ rows_out' = Append(rows_out, OutRow(df, idx, NextRef(current_ref_no)))
    /\ idx' = idx + 1
    /\ UNCHANGED << Disk, prog, pc, df, last_ref_no, DcLocals, result, runs, History,
                    TextVars >>

\* The skipping pass with the increment moved behind the validation: the
\* number of a skipped row is left for the next row
BD_RowSkipKeepsNumber ==
    /\ pc = "bd_rows" /\ idx <= Len(df.rows)
    /\ RowRaises(df)
    /\ skipped' = skipped \cup {NextRef(current_ref_no)}
    /\ idx' = idx + 1
    /\ UNCHANGED << Disk, prog, pc, df, BluedartLocals, DcLocals, result, runs,
                    issued, burned, counter_writes, file_before, TextVars >>

\* One pass of the row loop in which building the record raises: the number
\* was taken before, the row is logged and left out
BD_RowSkip ==
    /\ pc = "bd_rows" /\ idx <= Len(df.rows)
    /\ RowRaises(df)
    /\ current_ref_no' = NextRef(current_ref_no)
    /\ skipped' = skipped \cup {NextRef(current_ref_no)}
    /\ idx' = idx + 1
    /\ UNCHANGED << Disk, prog, pc, df, last_ref_no, rows_out, DcLocals, result, runs,
                    issued, burned, counter_writes, file_before, TextVars >>

\* df_out.to_csv succeeds and the file is found again
BD_WriteManifest ==
    /\ pc = "bd_rows" /\ idx > Len(df.rows)
    /\ manifest_file' = [exists |-> TRUE, rows |-> rows_out]
    /\ issued' = Append(issued, Refs(rows_out))
    /\ pc' = "bd_save"
    /\ UNCHANGED << counter_dir, counter_file, prog, df, idx, BluedartLocals, DcLocals,
                    result, runs, skipped, burned, counter_writes, file_before,
                    TextVars >>

\* The failing write with the counter stored before the manifest is written
BD_WriteFailsCounterStored ==
    /\ pc = "bd_rows" /\ idx > Len(df.rows)
    /\ counter_dir
    /\ counter_file' = StrInt(current_ref_no)
    /\ counter_writes' = counter_writes + 1
    /\ result' = Failure("output_write")
    /\ burned' = burned \cup {[no |-> n, success |-> FALSE] : n \in skipped}
    /\ pc' = "idle"
    /\ UNCHANGED << counter_dir, manifest_file, prog, df, idx, BluedartLocals,
                    DcLocals, runs, issued, skipped, file_before, TextVars >>

\* df_out.to_csv raises: nothing is written, the outer handler returns
BD_WriteFails ==
    /\ pc = "bd_rows" /\ idx > Len(df.rows)
    /\ result' = Failure("output_write")
    /\ burned' = burned \cup {[no |-> n, success |-> FALSE] : n \in skipped}
    /\ pc' = "idle"
    /\ UNCHANGED << Disk, prog, df, idx, BluedartLocals, DcLocals, runs, issued,
                    skipped, counter_writes, file_before, TextVars >>

\* The counter file is opened for writing and the new value stored
BD_SaveCounter ==
    /\ pc = "bd_save"
    /\ counter_dir
    /\ counter_file' = StrInt(current_ref_no)
    /\ counter_writes' = counter_writes + 1
    /\ result' = Success(Len(rows_out))
    /\ burned' = burned \cup {[no |-> n, success |-> TRUE] : n \in skipped}
    /\ pc' = "idle"
    /\ UNCHANGED << counter_dir, manifest_file, prog, df, idx, BluedartLocals,
                    DcLocals, runs, issued, skipped, file_before, TextVars >>

\* open(counter_file, "w") raises because the counter directory, which the
\* function never creates, does not exist: the outer handler returns
BD_SaveCounterFails ==
    /\ pc = "bd_save"
    /\ ~counter_dir
    /\ result' = Failure("counter_write")
    /\ burned' = burned \cup {[no |-> n, success |-> FALSE] : n \in skipped}
    /\ pc' = "idle"
    /\ UNCHANGED << Disk, prog, df, idx, BluedartLocals, DcLocals, runs, issued,
                    skipped, counter_writes, file_before, TextVars >>

\* ------------------------------------------------------ generate_dc_files
ReservedChars == <<" ", "/", "\\", "?", "*", ":", "|", "<", ">", "\"">>

RECURSIVE ReplaceAll(_, _, _)
ReplaceAll(s, olds, new) ==
    IF olds = <<>> THEN s ELSE ReplaceAll(Replace(s, Head(olds), new), Tail(olds), new)

SafeNameLen == 25

\* safe_name without the cut
SafeNameUncut(name) == ReplaceAll(name, ReservedChars, "_")

\* safe_name: the chain of replace calls, then [:25]
SafeName(name) == Prefix(ReplaceAll(name, ReservedChars, "_"), SafeNameLen)

\* f"DC_{safe_name}_{date_for_filename}.xlsx"
OutputFilename(name) ==
    <<"D", "C", "_">> \o SafeName(name) \o <<"_">> \o today_folder
        \o <<".", "x", "l", "s", "x">>

\* str(row.get('Full Name', '')) and str(row.get('City', ''))
DcFullName(d, i) == Str(Get(d, i, "Full Name", <<>>))
DcCity(d, i) == Str(Get(d, i, "City", <<>>))

\* "Skip if essential data is missing": not full_name or not city
DcMissing(name, city) == name = <<>> \/ city = <<>>

DC_Enter(d) ==
    /\ pc = "idle"
    /\ runs < MaxRuns
    /\ runs' = runs + 1
    /\ prog' = "dc"
    /\ df' = d
    /\ idx' = 1
    /\ full_name' = Unbound
    /\ generated_files' = <<>>
    /\ saved' = {}
    /\ saved_rows' = {}
    /\ UNCHANGED << Disk, BluedartLocals, History, TextVars >>

\* os.makedirs raises, the template is not there, or pd.read_csv raises: the
\* outer handler returns the failure
DC_SetupFails ==
    \E cause \in {"output_dir", "template_not_found", "input_not_found",
                  "malformed_input"} :
        /\ DC_Enter(IF cause = "input_not_found" THEN MissingFile
                    ELSE IF cause = "malformed_input" THEN Malformed
                    ELSE NoTable)
        /\ result' = Failure(cause)
        /\ pc' = "idle"

\* The table is read (it may have no rows) and the row loop starts
DC_Load ==
    \E d \in Tables(DcRows) :
        /\ DC_Enter(d)
        /\ result' = Pending
        /\ pc' = "dc_rows"

DcRowFrame ==
    UNCHANGED << Disk, prog, df, BluedartLocals, runs, History, TextVars >>

\* load_workbook raises in a pass where full_name is bound (by an earlier
\* pass): the handler logs the row and the loop continues
DC_RowLoadFails ==
    /\ pc = "dc_rows" /\ idx <= Len(df.rows)
    /\ full_name # Unbound
    /\ idx' = idx + 1
    /\ UNCHANGED << pc, full_name, generated_files, saved, saved_rows, result >>
    /\ DcRowFrame

\* load_workbook raises before full_name was ever assigned: the handler's
\* own message reads full_name, raises, and the outer handler returns
DC_RowLoadAborts ==
    /\ pc = "dc_rows" /\ idx <= Len(df.rows)
    /\ full_name = Unbound
    /\ result' = Failure("row_error")
    /\ pc' = "idle"
    /\ UNCHANGED << idx, full_name, generated_files, saved, saved_rows >>
    /\ DcRowFrame

\* The row has no name or no city: warning, continue
DC_RowMissing ==
    /\ pc = "dc_rows" /\ idx <= Len(df.rows)
    /\ DcMissing(DcFullName(df, idx), DcCity(df, idx))
    /\ full_name' = DcFullName(df, idx)
    /\ idx' = idx + 1
    /\ UNCHANGED << pc, generated_files, saved, saved_rows, result >>
    /\ DcRowFrame

\* The template is filled and saved under the derived name
DC_RowSaved ==
    /\ pc = "dc_rows" /\ idx <= Len(df.rows)
    /\ ~DcMissing(DcFullName(df, idx), DcCity(df, idx))
    /\ full_name' = DcFullName(df, idx)
    /\ saved' = saved \cup {OutputFilename(DcFullName(df, idx))}
    /\ saved_rows' = saved_rows \cup {idx}
    /\ generated_files' = Append(generated_files, OutputFilename(DcFullName(df, idx)))
    /\ idx' = idx + 1
    /\ UNCHANGED << pc, result >>
    /\ DcRowFrame

\* Filling or wb.save raises: the handler logs the row, the loop continues
DC_RowSaveFails ==
    /\ pc = "dc_rows" /\ idx <= Len(df.rows)
    /\ ~DcMissing(DcFullName(df, idx), DcCity(df, idx))
    /\ full_name' = DcFullName(df, idx)
    /\ idx' = idx + 1
    /\ UNCHANGED << pc, generated_files, saved, saved_rows, result >>
    /\ DcRowFrame

\* After the loop: the success result
DC_Return ==
    /\ pc = "dc_rows" /\ idx > Len(df.rows)
    /\ result' = Success(Len(generated_files))
    /\ pc' = "idle"
    /\ UNCHANGED << idx, full_name, generated_files, saved, saved_rows >>
    /\ DcRowFrame

\* ------------------------------------------------------------ specification
\* The two scripts are separate programs that share no state: each has its
\* own specification.
NextBluedart ==
    \/ BD_SetupFails
    \/ BD_EmptyInput
    \/ BD_Load
    \/ BD_RowOk
    \/ BD_RowSkip
    \/ BD_WriteManifest
    \/ BD_WriteFails
    \/ BD_SaveCounter
    \/ BD_SaveCounterFails

Spec == Init /\ [][NextBluedart]_vars

InitDc ==
    /\ counter_dir = FALSE
    /\ counter_file = NoFile
    /\ file_before = NoFile
    /\ manifest_file = NoManifest
    /\ InitRun
    /\ arg = <<>>
    /\ out = <<>>

NextDc ==
    \/ DC_SetupFails
    \/ DC_Load
    \/ DC_RowLoadFails
    \/ DC_RowLoadAborts
    \/ DC_RowMissing
    \/ DC_RowSaved
    \/ DC_RowSaveFails
    \/ DC_Return

SpecDc == InitDc /\ [][NextDc]_vars

\* ------------------------------------------- the text functions on their own
\* Everything but arg, out and pc stays as constructed
TextFrame ==
    UNCHANGED << Disk, prog, df, idx, BluedartLocals, DcLocals, result, runs, History,
                 arg >>

RECURSIVE Repeat(_, _)
Repeat(s, k) == IF k = 0 THEN <<>> ELSE s \o Repeat(s, k - 1)

NameAlphabet ==
    {" ", "/", "\\", "?", "*", ":", "|", "<", ">", "\"", "a", "_"}

NameSeeds == UNION {[1..n -> NameAlphabet] : n \in 1..2}

\* Full names: a seed repeated, and a seed behind a run of letters, so that
\* every character of the alphabet stands at every position up to and past
\* the cut
NameInputs ==
    { Repeat(seed, k) : seed \in NameSeeds, k \in 0..MaxRep }
    \cup { Repeat(<<"a">>, k) \o seed : seed \in NameSeeds, k \in 0..(2 * MaxRep) }

InitName ==
    /\ counter_dir = FALSE
    /\ counter_file = NoFile
    /\ file_before = NoFile
    /\ manifest_file = NoManifest
    /\ InitRun
    /\ arg \in NameInputs
    /\ out = <<>>

\* output_filename for the full name arg
ApplyOutputFilename ==
    /\ pc = "idle"
    /\ out' = OutputFilename(arg)
    /\ pc' = "applied"
    /\ TextFrame

SpecFilename == InitName /\ [][ApplyOutputFilename]_vars

StreetInputs ==
    { <<"s">>, <<"1", " ", "M">>, <<"s", "\n">>, <<" ", "s", "\t", "\t", "t", " ">>,
      <<"s", ",", " ", "t">>, <<"s", " ", " ", "t">>, <<"s", "\r", "\n", "t">>,
      <<>>, <<"N", "A">> }

LandmarkInputs ==
    { <<>>, <<" ">>, <<"N", "/", "A">>, <<"n", "/", "a">>, <<"N", "/", "a">>,
      <<"n", "/", "A">>, <<"n", "a", "n">>, <<"N", "a", "N">>, <<"N", "A", "N">>,
      <<"N", "a", "n">>, <<"N", "A">>, <<"L">>, <<"L", "\n", "b">>,
      <<" ", "N", "/", "A">>, <<"n", "a", "n", "a">> }

InitAddress ==
    /\ counter_dir = FALSE
    /\ counter_file = NoFile
    /\ file_before = NoFile
    /\ manifest_file = NoManifest
    /\ InitRun
    /\ arg \in [street : StreetInputs, landmark : LandmarkInputs, cols : ColumnSets]
    /\ out = <<>>

\* The table of one row that read_csv returns for the cells of arg
ArgTable ==
    [kind |-> "table", cols |-> arg.cols,
     rows |-> << [name |-> <<"A">>, street |-> arg.street,
                  landmark |-> arg.landmark, city |-> <<"P">>] >>]

\* Delivery address of the manifest record built for that row
ApplyDeliveryAddress ==
    /\ pc = "idle"
    /\ ~RowRaises(ArgTable)
    /\ out' = OutRow(ArgTable, 1, 1).delivery_address
    /\ pc' = "applied"
    /\ TextFrame

\* Building the record raises (a required column is missing): no address
ApplyDeliveryAddressRaises ==
    /\ pc = "idle"
    /\ RowRaises(ArgTable)
    /\ out' = KeyError
    /\ pc' = "applied"
    /\ TextFrame

NextAddress == ApplyDeliveryAddress \/ ApplyDeliveryAddressRaises

SpecAddress == InitAddress /\ [][NextAddress]_vars

\* ------------------------------------------------------------------ claims
\* Number a counter file stands for: its decimal value, 0 when there is no
\* file or its text is no integer
ValueHeld(file) ==
    IF file = NoFile THEN 0
    ELSE IF IsDigits(Strip(file)) THEN DigitsValue(Strip(file))
    ELSE IF IsIntText(file) THEN IntOf(file)
    ELSE 0

\* The manifest pipeline returned from its latest run
BluedartReturned == prog = "bluedart" /\ pc = "idle" /\ runs > 0

\* C1: across the runs made against one counter directory no reference text
\* is put into two manifests: the reference texts of any two manifests
\* written are disjoint.
C1_NoReferenceIssuedTwice ==
    \A i \in 1..Len(issued) : \A j \in 1..Len(issued) :
        i < j => issued[i] \cap issued[j] = {}

ManifestWritten == prog = "bluedart" /\ (pc = "bd_save" \/ (pc = "idle" /\ result.success))

\* Digits that follow LGS-INV- in a reference text
RefDigits(ref) == SubSeq(ref, Len(LGS_INV) + 1, Len(ref))

\* Name a manifest row carries for an input row of the batches
NameOf(r) == IF r.name = <<>> THEN <<"n", "a", "n">> ELSE r.name

\* C3: a manifest run over N rows, none skipped, that started from counter
\* value c (0 without a state file) writes N data rows in input order, the
\* i-th carrying c + i as Reference No and as Invoice No, written LGS-INV-
\* and the number padded with zeros to three digits, wider from 1000 on;
\* without a state file the first reference is LGS-INV-001.
C3_ContiguousReferences ==
    (ManifestWritten /\ skipped = {}) =>
        LET c == ValueHeld(file_before)
            m == manifest_file.rows
        IN  /\ manifest_file.exists
            /\ Len(m) = Len(df.rows)
            /\ \A i \in 1..Len(m) :
                LET d == RefDigits(m[i].reference_no) IN
                /\ SubSeq(m[i].reference_no, 1, Len(LGS_INV)) = LGS_INV
                /\ IsDigits(d)
                /\ DigitsValue(d) = c + i
                /\ Len(d) >= 3
                /\ (Len(d) > 3 => d[1] # "0")
                /\ m[i].invoice_no = m[i].reference_no
                /\ m[i].company_name = NameOf(df.rows[i])
            /\ (file_before = NoFile =>
                    m[1].reference_no
                        = <<"L", "G", "S", "-", "I", "N", "V", "-", "0", "0", "1">>)

\* A run of two rows without a state file has written LGS-INV-001 and -002
C3_Witness ==
    /\ BluedartReturned /\ result.success /\ skipped = {}
    /\ file_before = NoFile
    /\ Len(manifest_file.rows) = 2
    /\ manifest_file.rows[2].reference_no
           = <<"L", "G", "S", "-", "I", "N", "V", "-", "0", "0", "2">>

RefNumber(row) == DigitsValue(RefDigits(row.reference_no))

\* What holds of every manifest run whatever becomes of it: the number of a
\* row is taken before the row is validated, the rows built carry strictly
\* increasing numbers, and no number of a skipped row of the run is on a row
AllocatedBeforeValidation ==
    (prog = "bluedart" /\ df.kind = "table" /\ Len(df.rows) > 0) =>
        /\ current_ref_no = last_ref_no + (idx - 1)
        /\ \A i \in 1..Len(rows_out) : \A j \in 1..Len(rows_out) :
              i < j => RefNumber(rows_out[i]) < RefNumber(rows_out[j])
        /\ \A n \in skipped : RefText(n) \notin Refs(rows_out)
        /\ {RefNumber(rows_out[i]) : i \in 1..Len(rows_out)} \cup skipped
              = (last_ref_no + 1)..current_ref_no
        /\ Len(rows_out) + Cardinality(skipped) = idx - 1

\* After a successful run over N rows the file holds the prior value plus N
CounterAdvancedByAllRows ==
    (BluedartReturned /\ result.success) =>
        ValueHeld(counter_file) = ValueHeld(file_before) + Len(df.rows)

\* C4 as stated: the number of a skipped row is consumed, whatever becomes of
\* the run: no later row of the run and no row of any later run carries it.
C4_SkippedNumberNeverReissued ==
    /\ AllocatedBeforeValidation
    /\ CounterAdvancedByAllRows
    /\ (prog = "bluedart" => \A b \in burned : RefText(b.no) \notin Refs(rows_out))

\* C4 as amended: the number of a row is allocated before the row is
\* validated; the number of a skipped row is not given to a later row of the
\* run, nor, when the run ends successfully, to a row of any later run; after
\* a successful run over N rows the file holds the prior value plus N however
\* many rows were skipped; the references are strictly increasing, the numbers
\* left out being those of the skipped rows.
C4_SkippedNumberConsumed ==
    /\ AllocatedBeforeValidation
    /\ CounterAdvancedByAllRows
    /\ (prog = "bluedart" =>
            \A b \in burned : b.success => RefText(b.no) \notin Refs(rows_out))

\* A run has built rows after an earlier successful run skipped rows
C4_Witness ==
    /\ BluedartReturned /\ result.success /\ runs = 2
    /\ rows_out # <<>>
    /\ \E b \in burned : b.success

\* C6: a manifest run writes the state file once, as its last step and only
\* when it succeeds, the manifest being on disk by then; while the run is
\* under way and after a run that returned success=false the file is as it
\* was before the run.
C6_CounterWrittenOnceOnSuccess ==
    /\ counter_writes <= 1
    /\ (prog = "bluedart" /\ pc # "idle") =>
            counter_file = file_before /\ counter_writes = 0
    /\ BluedartReturned =>
            IF result.success
            THEN /\ counter_writes = 1
                 /\ manifest_file.exists
                 /\ manifest_file.rows = rows_out
                 /\ issued # <<>>
            ELSE counter_file = file_before /\ counter_writes = 0

\* The manifest write of a second run failed after its rows were numbered:
\* the file still holds what the first run stored
C6_Witness ==
    /\ BluedartReturned /\ runs = 2
    /\ result.cause = "output_write"
    /\ current_ref_no > last_ref_no
    /\ IsDigits(counter_file)
    /\ counter_file = file_before
    /\ DigitsValue(counter_file) = last_ref_no

\* ---------------------------------------------------- claims, both pipelines
DcReturned == prog = "dc" /\ pc = "idle" /\ runs > 0

\* C5: a failure raised inside the row loop, at whatever step, is caught at
\* the row: a run that got as far as its row loop goes through all its rows
\* and, unless writing its output fails afterwards, returns success=true.
C5_RowFailureNeverFailsBatch ==
    /\ (DcReturned /\ df.kind = "table") =>
            result.success /\ idx > Len(df.rows)
    /\ (BluedartReturned /\ df.kind = "table" /\ Len(df.rows) > 0) =>
            /\ idx > Len(df.rows)
            /\ (result.success \/ result.cause \in {"output_write", "counter_write"})

\* Failures that abort a run: the setup failures and the output write failures
FatalFailures ==
    { "output_dir", "input_not_found", "malformed_input", "template_not_found",
      "empty_input", "output_write", "counter_write" }

\* Rows of the latest run that produced an artifact
Artifacts == IF prog = "dc" THEN Cardinality(saved_rows) ELSE Len(rows_out)

\* C7: the result has success=false and count=0 exactly when the run aborted
\* on a fatal failure; every other run returns success=true and the number of
\* rows that produced an artifact.
C7_ResultMatchesOutcome ==
    (pc = "idle" /\ runs > 0) =>
        IF result.cause \in FatalFailures
        THEN ~result.success /\ result.count = 0
        ELSE result.success /\ result.count = Artifacts

\* The cell of a row is empty, or the table has no such column
EmptyOrMissing(d, i, col) == col \notin d.cols \/ RawCell(d.rows[i], col) = <<>>

\* C8: in the document pipeline no document is saved or counted for a row
\* whose full name or city is empty or missing, and such a row does not fail
\* the run.
C8_IncompleteRowsSkipped ==
    prog = "dc" =>
        /\ \A i \in saved_rows :
              /\ ~EmptyOrMissing(df, i, "Full Name")
              /\ ~EmptyOrMissing(df, i, "City")
        /\ Len(generated_files) = Cardinality(saved_rows)

\* C11: within one document run every row that is not skipped is saved to a
\* path of its own: the paths of the returned list are pairwise different, so
\* the distinct files the run leaves in the output directory are as many as
\* the rows saved, the entries of the list and the count reported.
C11_OneFilePerRow ==
    prog = "dc" =>
        /\ \A i \in 1..Len(generated_files) : \A j \in 1..Len(generated_files) :
              i # j => generated_files[i] # generated_files[j]
        /\ Cardinality(saved) = Cardinality(saved_rows)
        /\ Cardinality(saved) = Len(generated_files)
        /\ (DcReturned /\ result.success) => result.count = Cardinality(saved)

\* ------------------------------------------------------ claims, text functions
ReservedInClaim == {" ", "/", "\\", "?", "*", ":", "|", "<", ">", "\""}

\* C9: the document filename of a full name is DC_ + safe_name +
\* _DDMMYYYY.xlsx, where safe_name is the name with every reserved character
\* replaced by an underscore, cut to its first 25 characters: it holds no
\* reserved character, and the filename is at most 3 + 25 + 14 long.
C9_FilenameBounded ==
    pc = "applied" =>
        LET n == Len(out)
            safe == SubSeq(out, 4, n - 14)
        IN  /\ n >= 17 /\ n <= 3 + 25 + 14
            /\ SubSeq(out, 1, 3) = <<"D", "C", "_">>
            /\ out[n - 13] = "_"
            /\ IsDigits(SubSeq(out, n - 12, n - 5))
            /\ SubSeq(out, n - 4, n) = <<".", "x", "l", "s", "x">>
            /\ Len(safe) = (IF Len(arg) < 25 THEN Len(arg) ELSE 25)
            /\ \A i \in 1..Len(safe) :
                  /\ safe[i] \notin ReservedInClaim
                  /\ safe[i] = (IF arg[i] \in ReservedInClaim THEN "_" ELSE arg[i])

\* A name longer than the cut with reserved characters on both sides of it
C9_Witness ==
    /\ pc = "applied"
    /\ Len(arg) > 26
    /\ arg[25] = "|" /\ arg[26] = "\""
    /\ Len(out) = 42

NonBlank(s) == SelectSeq(s, LAMBDA c : c \notin Whitespace)

\* The address is the street and nothing else: the street with its white
\* space normalised, and the street itself when there is nothing to normalise
StreetOnly(address, street) ==
    /\ NonBlank(address) = NonBlank(street)
    /\ address # <<>> => address[1] # " " /\ address[Len(address)] # " "
    /\ \A i \in 1..Len(address) : address[i] \notin {"\n", "\r", "\t"}
    /\ \A i \in 1..(Len(address) - 1) : ~(address[i] = " " /\ address[i + 1] = " ")
    /\ (/\ \A i \in 1..Len(street) : street[i] \notin {"\n", "\r", "\t"}
        /\ \A i \in 1..(Len(street) - 1) : ~(street[i] = " " /\ street[i + 1] = " ")
        /\ street # <<>> /\ street[1] # " " /\ street[Len(street)] # " ")
           => address = street

\* The table has a landmark column
LandmarkGiven == "Landmark" \in arg.cols

\* Street address of the row as the table gives it: the text of the cell, nan
\* for a cell read as missing
StreetRead == IF arg.street \in NAValues THEN <<"n", "a", "n">> ELSE arg.street

\* C10 as stated: a landmark that is N/A in any letter case, the
\* not-available marker or empty is treated as absent: the delivery address
\* is the street address, with no ", " suffix.
C10_AnyCaseNA ==
    (pc = "applied" /\ out # KeyError /\ LandmarkGiven
        /\ Lower(arg.landmark) \in {<<"n", "/", "a">>, <<"n", "a", "n">>, <<>>})
    => StreetOnly(out, StreetRead)

\* C10 as amended: a landmark that is "N/A" or "n/a", the not-available
\* marker (nan in any letter case) or empty is treated as absent: the
\* delivery address is the street address, with no ", " suffix.
C10_AbsentLandmark ==
    (pc = "applied" /\ out # KeyError /\ LandmarkGiven
        /\ \/ arg.landmark \in {<<"N", "/", "A">>, <<"n", "/", "a">>, <<>>}
           \/ Lower(arg.landmark) = <<"n", "a", "n">>)
    => StreetOnly(out, StreetRead)

\* The landmark N/A on a street of two words: the address is the street
C10_Witness ==
    /\ pc = "applied" /\ LandmarkGiven
    /\ arg.landmark = <<"N", "/", "A">>
    /\ arg.street = <<"1", " ", "M">>
    /\ out = <<"1", " ", "M">>
====
